---- MODULE Spec2Model ----
(***************************************************************************)
(* Model of backend/main.py: the fallback diagram formatter                *)
(* (generate_fallback_mindmap), the generative diagram caller              *)
(* (generate_mindmap_data) and the three POST handlers.                    *)
(*                                                                         *)
(* Python str values are TLA+ strings; TLC evaluates Len, \o and SubSeq on *)
(* them.  TLA+ strings are ASCII, so every non-ASCII character of the      *)
(* source is written as one ASCII character that occurs nowhere else:      *)
(*   U+3002 (the ideographic full stop the formatter splits on) is "~",    *)
(*   each CJK character of a fixed label is one capital letter,            *)
(*   the backquote of a markdown code fence is "^".                        *)
(***************************************************************************)
EXTENDS Integers, Sequences, FiniteSets, TLC

VARIABLES
    text,        \* the text argument of the call / the transcript
    fault,       \* whether the try body of the running function raised
    pc,          \* position of the running call or handler
    sentences,   \* local `sentences` of generate_fallback_mindmap
    node_texts,  \* local `node_text` of each loop round, before escaping
    result,      \* the returned dict, or NoResult
    passes,      \* how many times the escaping step has run on `label`
    label,       \* a node label under the escaping step
    request,     \* the HTTP request being handled
    provider,    \* outcome of the generative provider call
    transcript,  \* what the speech provider returned
    files,       \* temporary files that exist on disk
    calls,       \* number of generate_mindmap_data invocations
    mindmap,     \* local `mindmap_data` of a transcription handler
    swallowed,   \* whether the diagram stage raised and was only logged
    exc,         \* the exception in flight in the handler, or NoExc
    ret,         \* the value the handler is returning, or NoResult
    response     \* the HTTP response, or NoResult

vars == <<text, fault, pc, sentences, node_texts, result, passes, label,
          request, provider, transcript, files, calls, mindmap, swallowed,
          exc, ret, response>>

NoResult == [type |-> "none"]
NoExc == [type |-> "none"]
None == [type |-> "None"]

(***************************************************************************)
(* Python str primitives.                                                  *)
(***************************************************************************)
FullStop == "~"
Whitespace == {" ", "\n", "\t", "\r"}

Min(a, b) == IF a < b THEN a ELSE b

Char(s, i) == SubSeq(s, i, i)

\* s[:n]
Prefix(s, n) == SubSeq(s, 1, Min(n, Len(s)))

\* s[n:] with n counted from 0
Suffix(s, n) == SubSeq(s, n + 1, Len(s))

\* every index at which old occurs in s
Hits(s, old) ==
    {i \in 1..(Len(s) - Len(old) + 1) : SubSeq(s, i, i + Len(old) - 1) = old}

\* the first of the indices hits at or after start, 0 when there is none
NextHit(hits, start) ==
    LET later == {h \in hits : h >= start}
    IN  IF later = {} THEN 0 ELSE CHOOSE i \in later : \A j \in later : i <= j

\* str.find(old) + 1
Find(s, old) == NextHit(Hits(s, old), 1)

RECURSIVE lstrip(_)
lstrip(s) ==
    IF Len(s) > 0 /\ Char(s, 1) \in Whitespace THEN lstrip(Suffix(s, 1)) ELSE s

RECURSIVE rstrip(_)
rstrip(s) ==
    IF Len(s) > 0 /\ Char(s, Len(s)) \in Whitespace THEN rstrip(Prefix(s, Len(s) - 1)) ELSE s

\* str.strip()
strip(s) == rstrip(lstrip(s))

\* the pieces of s from index start on, cut at the occurrences hits of a
\* separator of length n, taken left to right without overlap
RECURSIVE Pieces(_, _, _, _)
Pieces(s, n, hits, start) ==
    LET i == NextHit(hits, start)
    IN  IF i = 0 THEN <<SubSeq(s, start, Len(s))>>
        ELSE <<SubSeq(s, start, i - 1)>> \o Pieces(s, n, hits, i + n)

\* str.split(sep)
split(s, sep) == Pieces(s, Len(sep), Hits(s, sep), 1)

\* sep.join(words)
RECURSIVE join(_, _)
join(sep, words) ==
    IF Len(words) = 0 THEN ""
    ELSE IF Len(words) = 1 THEN words[1]
    ELSE words[1] \o sep \o join(sep, Tail(words))

\* str.replace(old, new): the pieces between the occurrences of old, joined by new
replace(s, old, new) == join(new, split(s, old))

\* length of the leading run of non-whitespace characters of s
RECURSIVE WordLen(_)
WordLen(s) ==
    IF Len(s) = 0 \/ Char(s, 1) \in Whitespace THEN 0 ELSE 1 + WordLen(Suffix(s, 1))

\* str.split() with no separator: the maximal runs of non-whitespace
RECURSIVE split_ws(_)
split_ws(s) ==
    LET t == lstrip(s)
        n == WordLen(t)
    IN  IF Len(t) = 0 THEN <<>>
        ELSE <<Prefix(t, n)>> \o split_ws(Suffix(t, n))

\* chr(n) for the capital letters
chr(n) == Char("ABCDEFGHIJKLMNOPQRSTUVWXYZ", n - 64)

(***************************************************************************)
(* generate_fallback_mindmap                                               *)
(***************************************************************************)
MinFragmentLen == 3
MaxNodes == 4
FirstNodeCode == 67
ShortLen == 15
MinWords == 2
LineLimit == 20
LineKeep == 17
WholeLimit == 25
MinimalKeep == 20

\* the filter of both list comprehensions: s.strip() and len(s.strip()) > 3
Usable(s) == strip(s) # "" /\ Len(strip(s)) > MinFragmentLen

\* [s.strip() for s in text.split(sep) if s.strip() and len(s.strip()) > 3]
Fragments(t, sep) ==
    LET kept == SelectSeq(split(t, sep), Usable)
    IN  [i \in 1..Len(kept) |-> strip(kept[i])]

\* a variant that tries the comma before the full stop
select_sentences_comma_first(t) ==
    LET byStop == Fragments(t, FullStop)
        byComma == Fragments(t, ",")
    IN  IF byComma # <<>> THEN byComma
        ELSE IF byStop # <<>> THEN byStop
        ELSE <<strip(t)>>

\* the value of `sentences` when the loop starts
select_sentences(t) ==
    LET byStop == Fragments(t, FullStop)
        byComma == Fragments(t, ",")
    IN  IF byStop # <<>> THEN byStop
        ELSE IF byComma # <<>> THEN byComma
        ELSE <<strip(t)>>

\* a variant that keeps 20 characters before the ellipsis
clip_line_keep20(line) ==
    IF Len(line) > LineLimit THEN Prefix(line, LineLimit) \o "..." ELSE line

\* line1 = line1[:17] + "..." when len(line1) > 20
clip_line(line) ==
    IF Len(line) > LineLimit THEN Prefix(line, LineKeep) \o "..." ELSE line

\* the value of node_text before the escaping step
shape(sentence) ==
    IF Len(sentence) > ShortLen
    THEN LET words == split_ws(sentence)
         IN  IF Len(words) > MinWords
             THEN LET mid == Len(words) \div 2
                      line1 == join(" ", SubSeq(words, 1, mid))
                      line2 == join(" ", SubSeq(words, mid + 1, Len(words)))
                  IN  clip_line(line1) \o "<br/>" \o clip_line(line2)
             ELSE IF Len(sentence) > WholeLimit
                  THEN Prefix(sentence, WholeLimit) \o "..."
                  ELSE sentence
    ELSE sentence

\* a variant that leaves the single quote alone
escape_double_only(s) ==
    replace(replace(s, "\"", "&quot;"), "\n", "<br/>")

\* a variant that also escapes the ampersand, as HTML escaping does
escape_ampersand(s) ==
    replace(replace(replace(replace(s, "&", "&amp;"), "\"", "&quot;"), "'", "&#39;"),
            "\n", "<br/>")

\* .replace('"', '&quot;').replace("'", "&#39;").replace('\n', '<br/>')
escape(s) ==
    replace(replace(replace(s, "\"", "&quot;"), "'", "&#39;"), "\n", "<br/>")

\* a variant without the slice
first_nodes_uncapped(sents) == sents

\* sentences[:4]
first_nodes(sents) == SubSeq(sents, 1, Min(MaxNodes, Len(sents)))

\* one round of the loop, i counted from 0 as enumerate does
node_line(i, sentence) ==
    "    B --> " \o chr(FirstNodeCode + i) \o "[\"" \o escape(shape(sentence)) \o "\"]\n"

RECURSIVE node_lines(_, _)
node_lines(sents, i) ==
    IF i >= Len(sents) THEN ""
    ELSE node_line(i, sents[i + 1]) \o node_lines(sents, i + 1)

Header == "graph TD\n"
RootEdge == "    A[YYZLNR] --> B[ZYNR]\n"
Styles ==
    "\n"
    \o "    classDef default fill:#f9f9f9,stroke:#333,stroke-width:2px,font-size:14px;\n"
    \o "    classDef highlight fill:#e3f2fd,stroke:#1976d2,stroke-width:3px,font-weight:bold;\n"
    \o "    classDef content fill:#fff3e0,stroke:#f57c00,stroke-width:2px;\n"
    \o "    class A highlight;\n"
    \o "    class B content;\n"

\* the try body
main_diagram(t) ==
    Header \o RootEdge \o node_lines(first_nodes(select_sentences(t)), 0) \o Styles

\* the except body
minimal_diagram(t) ==
    "graph TD\n    A[YYZL] --> B[\"" \o escape(Prefix(t, MinimalKeep)) \o "...\"]\n"
    \o "    classDef default fill:#f9f9f9,stroke:#333,stroke-width:2px,font-size:14px;\n"
    \o "    classDef highlight fill:#e3f2fd,stroke:#1976d2,stroke-width:3px;\n"
    \o "    class A highlight;"

\* a variant without the except clause: the exception leaves the function
generate_fallback_mindmap_reraise(t, raised) ==
    IF raised THEN [type |-> "raised", mermaid_code |-> ""]
    ELSE [type |-> "mermaid", mermaid_code |-> main_diagram(t)]

\* raised: whether the try body raised before its return
generate_fallback_mindmap(t, raised) ==
    [type |-> "mermaid",
     mermaid_code |-> IF raised THEN minimal_diagram(t) ELSE main_diagram(t)]

(***************************************************************************)
(* Bounded inputs: every concatenation of at most n pieces.                *)
(***************************************************************************)
MaxFrags == 5
MaxWords == 4
MaxEscLen == 3
MaxPasses == 2

RECURSIVE Concats(_, _)
Concats(pieces, n) ==
    IF n = 0 THEN {""}
    ELSE {""} \cup {p \o s : p \in pieces, s \in Concats(pieces, n - 1)}

\* clauses ended by a full stop or a comma, usable (> 3) or not, and padding
FragPieces == {"abcd~", "wxyz~", "a~", "a,", " "}

\* words of 20, 5 and 1 characters, word breaks, and the escaped characters
WordPieces == {"aaaaaaaaaaaaaaaaaaaa", "bbbbb", "c", " c", "\"", "'", "\n"}

\* the escaped characters, and text that already looks escaped
EscPieces == {"\"", "'", "\n", "&", "&quot;", "q"}

\* the two-sentence transcript (CJK as capitals) and the quoted phrase
ScenarioA == "JTTQHH~MTHXY~"
ScenarioE == "He said \"hi\""

FmtInputs ==
    Concats(FragPieces, MaxFrags) \cup Concats(WordPieces, MaxWords)
        \cup {ScenarioA, ScenarioE}
EscInputs == Concats(EscPieces, MaxEscLen)

NoRequest == [endpoint |-> "none"]
NoProvider == [kind |-> "none"]

(***************************************************************************)
(* A call of generate_fallback_mindmap(text).                              *)
(***************************************************************************)
FmtInit ==
    /\ text \in FmtInputs
    /\ pc = "call"
    /\ fault = FALSE /\ sentences = <<>> /\ node_texts = <<>>
    /\ result = NoResult /\ passes = 0 /\ label = ""
    /\ request = NoRequest /\ provider = NoProvider /\ transcript = NoResult
    /\ files = {} /\ calls = 0 /\ response = NoResult
    /\ mindmap = None /\ swallowed = FALSE /\ exc = NoExc /\ ret = NoResult

\* the whole call; the try body may raise (raised), and its locals are then lost
GenerateFallback ==
    /\ pc = "call"
    /\ \E raised \in BOOLEAN :
        /\ fault' = raised
        /\ sentences' = IF raised THEN <<>> ELSE select_sentences(text)
        /\ node_texts' =
              IF raised THEN <<>>
              ELSE LET used == first_nodes(select_sentences(text))
                   IN  [i \in 1..Len(used) |-> shape(used[i])]
        /\ result' = generate_fallback_mindmap(text, raised)
    /\ pc' = "returned"
    /\ UNCHANGED <<text, passes, label, request, provider, transcript, files,
                   calls, mindmap, swallowed, exc, ret, response>>

FmtNext == GenerateFallback

SpecFmt == FmtInit /\ [][FmtNext]_vars

(***************************************************************************)
(* The escaping step run repeatedly on one label.                          *)
(***************************************************************************)
EscInit ==
    /\ text \in EscInputs
    /\ label = text
    /\ pc = "escape"
    /\ passes = 0
    /\ fault = FALSE /\ sentences = <<>> /\ node_texts = <<>>
    /\ result = NoResult
    /\ request = NoRequest /\ provider = NoProvider /\ transcript = NoResult
    /\ files = {} /\ calls = 0 /\ response = NoResult
    /\ mindmap = None /\ swallowed = FALSE /\ exc = NoExc /\ ret = NoResult

EscapeLabel ==
    /\ pc = "escape"
    /\ passes < MaxPasses
    /\ label' = escape(label)
    /\ passes' = passes + 1
    /\ UNCHANGED <<text, fault, pc, sentences, node_texts, result, request,
                   provider, transcript, files, calls, mindmap, swallowed, exc,
                   ret, response>>

EscNext == EscapeLabel

SpecEsc == EscInit /\ [][EscNext]_vars

(***************************************************************************)
(* generate_mindmap_data and the three POST handlers.                      *)
(***************************************************************************)
AVAILABLE_MODELS == {"gemini-1.5-flash", "gemini-1.5-pro", "gemini-1.0-pro"}

allowed_types ==
    {"audio/mpeg", "audio/mp4", "audio/wav", "audio/webm", "audio/m4a",
     "audio/mpga", "audio/x-wav"}

TranscribeLimit == 25 * 1024 * 1024
RealtimeLimit == 5 * 1024 * 1024
DiagramMinLen == 20

\* the one temporary file a request creates
TempPath == "tmp"

\* what the generative provider does: the call raises, or response.text is a
\* string ("" also stands for a response with no text)
ProviderOutcomes ==
    {[kind |-> "raise", text |-> ""]}
        \cup {[kind |-> "text", text |-> t] :
                t \in {"", " \n", "graph TD\n    A --> B",
                       "^^^mermaid\ngraph TD\n    A --> B\n^^^\n"}}

\* what the speech provider returns: at, below and above the 20 characters
\* the diagram stage asks for, with and without padding
Transcripts ==
    {"", "aaaaaaaaaaaaaaaaaaaa", "aaaaaaaaaa~bbbbbbbbbb",
     " aaaaaaaaaaaaaaaaaaa \n", " aaaaaaaaaa~bbbbbbbbbb\n"}

Requests ==
    {[endpoint |-> "generate-mindmap", model |-> m, text |-> t,
      content_type |-> "application/json", size |-> Len(t)] :
        m \in AVAILABLE_MODELS \cup {"gpt-4"},
        t \in {"", "aaaaaaaaaa~bbbbbbbbbb", "He said \"hi\", bye"}}
    \cup
    {[endpoint |-> e, model |-> "gemini-1.5-flash", text |-> "",
      content_type |-> c, size |-> n] :
        e \in {"transcribe", "transcribe-realtime"},
        c \in {"audio/webm", "text/plain"},
        n \in {1, RealtimeLimit, RealtimeLimit + 1, TranscribeLimit, TranscribeLimit + 1}}

\* a variant without the test of response.text
generate_mindmap_data_unchecked(t, p, raised) ==
    IF p.kind = "text"
    THEN [type |-> "mermaid",
          mermaid_code |->
              strip(replace(replace(strip(p.text), "^^^mermaid", ""), "^^^", ""))]
    ELSE generate_fallback_mindmap(t, raised)

\* p: the provider's outcome; raised: whether the fallback's try body raised
generate_mindmap_data(t, p, raised) ==
    IF p.kind = "text" /\ p.text # ""
    THEN [type |-> "mermaid",
          mermaid_code |->
              strip(replace(replace(strip(p.text), "^^^mermaid", ""), "^^^", ""))]
    ELSE generate_fallback_mindmap(t, raised)

ApiInit ==
    /\ request \in Requests
    /\ pc = "validate"
    /\ text = "" /\ fault = FALSE /\ sentences = <<>> /\ node_texts = <<>>
    /\ result = NoResult /\ passes = 0 /\ label = ""
    /\ provider = NoProvider /\ transcript = NoResult
    /\ files = {} /\ calls = 0 /\ response = NoResult
    /\ mindmap = None /\ swallowed = FALSE /\ exc = NoExc /\ ret = NoResult

Transcribing == request.endpoint \in {"transcribe", "transcribe-realtime"}

\* the checks at the head of each handler; a failed check raises HTTPException(400)
Validate ==
    /\ pc = "validate"
    /\ LET ok ==
             CASE request.endpoint = "generate-mindmap" ->
                      request.model \in AVAILABLE_MODELS
               [] request.endpoint = "transcribe" ->
                      /\ request.content_type \in allowed_types
                      /\ ~(request.size > TranscribeLimit)
               [] request.endpoint = "transcribe-realtime" ->
                      ~(request.size > RealtimeLimit)
       IN  IF ok
           THEN /\ pc' = (IF Transcribing THEN "tempfile" ELSE "generate")
                /\ exc' = exc
           ELSE /\ pc' = "except"
                /\ exc' = [type |-> "HTTPException", status |-> 400, at |-> "validate"]
    /\ UNCHANGED <<text, fault, sentences, node_texts, result, passes, label,
                   request, provider, transcript, files, calls, mindmap,
                   swallowed, ret, response>>

\* /generate-mindmap: the call of generate_mindmap_data and the dict returned
Generate ==
    /\ pc = "generate"
    /\ \E p \in ProviderOutcomes, raised \in BOOLEAN :
        /\ provider' = p
        /\ fault' = (raised /\ ~(p.kind = "text" /\ p.text # ""))
        /\ text' = request.text
        /\ calls' = calls + 1
        /\ result' = generate_mindmap_data(request.text, p, raised)
        /\ ret' = [success |-> TRUE, model_used |-> request.model,
                   mindmap |-> generate_mindmap_data(request.text, p, raised)]
    /\ pc' = "return"
    /\ UNCHANGED <<sentences, node_texts, passes, label, request, transcript,
                   files, mindmap, swallowed, exc, response>>

\* with NamedTemporaryFile(delete=False): the file is created, then written;
\* a failed write leaves the with block by the exception, before the inner try
CreateTemp ==
    /\ pc = "tempfile"
    /\ files' = files \cup {TempPath}
    /\ \E written \in BOOLEAN :
        IF written
        THEN pc' = "transcribe" /\ exc' = exc
        ELSE /\ pc' = "except"
             /\ exc' = [type |-> "OSError", status |-> 0, at |-> "write"]
    /\ UNCHANGED <<text, fault, sentences, node_texts, result, passes, label,
                   request, provider, transcript, calls, mindmap, swallowed,
                   ret, response>>

\* the upstream transcription call, and the assignment of transcribed_text
Transcribe ==
    /\ pc = "transcribe"
    /\ \/ \E t \in Transcripts :
            /\ transcript' = [type |-> "ok", text |-> t]
            /\ text' = (IF request.endpoint = "transcribe-realtime" THEN strip(t) ELSE t)
            /\ pc' = "diagram"
            /\ exc' = exc
       \/ /\ transcript' = [type |-> "error", text |-> ""]
          /\ text' = text
          /\ pc' = "finally"
          /\ exc' = [type |-> "APIError", status |-> 0, at |-> "upstream"]
    /\ UNCHANGED <<fault, sentences, node_texts, result, passes, label, request,
                   provider, files, calls, mindmap, swallowed, ret, response>>

\* the length test of the diagram stage
LongEnough ==
    IF request.endpoint = "transcribe"
    THEN Len(strip(text)) > DiagramMinLen
    ELSE Len(text) > DiagramMinLen

\* a variant without the inner try: an exception of the diagram stage
\* reaches the handler's finally and except clauses
Diagram_unguarded ==
    /\ pc = "diagram"
    /\ \/ /\ swallowed' = TRUE
          /\ exc' = [type |-> "Exception", status |-> 0, at |-> "diagram"]
          /\ pc' = "finally"
          /\ UNCHANGED <<provider, fault, calls, result, mindmap>>
       \/ /\ LongEnough
          /\ \E p \in ProviderOutcomes, raised \in BOOLEAN :
                /\ provider' = p
                /\ fault' = (raised /\ ~(p.kind = "text" /\ p.text # ""))
                /\ calls' = calls + 1
                /\ result' = generate_mindmap_data(text, p, raised)
                /\ mindmap' = generate_mindmap_data(text, p, raised)
          /\ swallowed' = swallowed
          /\ exc' = exc
          /\ pc' = "assemble"
       \/ /\ ~LongEnough
          /\ pc' = "assemble"
          /\ UNCHANGED <<provider, fault, calls, result, mindmap, swallowed, exc>>
    /\ UNCHANGED <<text, sentences, node_texts, passes, label, request,
                   transcript, files, ret, response>>

\* the diagram stage: its try body either raises (logged, mindmap_data stays
\* None) or runs the length test and the call
Diagram ==
    /\ pc = "diagram"
    /\ \/ /\ swallowed' = TRUE
          /\ UNCHANGED <<provider, fault, calls, result, mindmap>>
       \/ /\ LongEnough
          /\ \E p \in ProviderOutcomes, raised \in BOOLEAN :
                /\ provider' = p
                /\ fault' = (raised /\ ~(p.kind = "text" /\ p.text # ""))
                /\ calls' = calls + 1
                /\ result' = generate_mindmap_data(text, p, raised)
                /\ mindmap' = generate_mindmap_data(text, p, raised)
          /\ swallowed' = swallowed
       \/ /\ ~LongEnough
          /\ UNCHANGED <<provider, fault, calls, result, mindmap, swallowed>>
    /\ pc' = "assemble"
    /\ UNCHANGED <<text, sentences, node_texts, passes, label, request,
                   transcript, files, exc, ret, response>>

\* the result dict; reading the transcript's fields may raise
Assemble ==
    /\ pc = "assemble"
    /\ \E built \in BOOLEAN :
        IF built
        THEN /\ ret' = [success |-> TRUE, text |-> text, mindmap |-> mindmap]
             /\ exc' = exc
        ELSE /\ ret' = ret
             /\ exc' = [type |-> "Exception", status |-> 0, at |-> "assemble"]
    /\ pc' = "finally"
    /\ UNCHANGED <<text, fault, sentences, node_texts, result, passes, label,
                   request, provider, transcript, files, calls, mindmap,
                   swallowed, response>>

\* finally: if os.path.exists(temp_file_path): os.unlink(temp_file_path)
Finally ==
    /\ pc = "finally"
    /\ files' = (IF TempPath \in files THEN files \ {TempPath} ELSE files)
    /\ pc' = (IF exc = NoExc THEN "return" ELSE "except")
    /\ UNCHANGED <<text, fault, sentences, node_texts, result, passes, label,
                   request, provider, transcript, calls, mindmap, swallowed,
                   exc, ret, response>>

\* the outer except clauses: every Exception, HTTPException included, is
\* raised again as HTTPException(500)
Except ==
    /\ pc = "except"
    /\ response' = [status |-> 500, body |-> [detail |-> exc.type]]
    /\ pc' = "done"
    /\ UNCHANGED <<text, fault, sentences, node_texts, result, passes, label,
                   request, provider, transcript, files, calls, mindmap,
                   swallowed, exc, ret>>

\* the handler returns its dict
Return ==
    /\ pc = "return"
    /\ response' = [status |-> 200, body |-> ret]
    /\ pc' = "done"
    /\ UNCHANGED <<text, fault, sentences, node_texts, result, passes, label,
                   request, provider, transcript, files, calls, mindmap,
                   swallowed, exc, ret>>

ApiNext ==
    \/ Validate
    \/ Generate
    \/ CreateTemp
    \/ Transcribe
    \/ Diagram
    \/ Assemble
    \/ Finally
    \/ Except
    \/ Return

SpecApi == ApiInit /\ [][ApiNext]_vars


(***************************************************************************)
(* Reading a returned body back: its lines, edges and labels.              *)
(***************************************************************************)
StartsWith(s, p) == Len(s) >= Len(p) /\ Prefix(s, Len(p)) = p
EndsWith(s, p) == Len(s) >= Len(p) /\ SubSeq(s, Len(s) - Len(p) + 1, Len(s)) = p
Contains(s, p) == Find(s, p) # 0

\* the number of occurrences of p in s, left to right without overlap
Count(s, p) == Len(split(s, p)) - 1

IsRootEdge(line) == StartsWith(line, "    A[") /\ Contains(line, "] --> B[")
IsContentEdge(line) == StartsWith(line, "    B --> ")
HasLabel(line) == Contains(line, "[\"")

BodyLines == split(result.mermaid_code, "\n")
ContentEdges == SelectSeq(BodyLines, IsContentEdge)
LabelLines == SelectSeq(BodyLines, HasLabel)

\* the text between the opening [" and the closing "] of a line
LabelOf(line) == SubSeq(line, Find(line, "[\"") + 2, Len(line) - 2)

\* the identifier between the arrow and the opening bracket
NodeIdOf(line) == SubSeq(line, 11, Find(line, "[") - 1)

Returned == pc = "returned"

(***************************************************************************)
(* C1: what generate_fallback_mindmap returns is always a mermaid dict     *)
(* whose code is non-empty and begins with the graph TD header, whatever   *)
(* the text; when the try body raised, nothing propagates and the result   *)
(* is the two-node diagram A --> B.                                        *)
(***************************************************************************)
C1_Total ==
    Returned =>
        LET code == result.mermaid_code
            lines == split(code, "\n")
        IN  /\ result.type = "mermaid"
            /\ code # ""
            /\ lines[1] = "graph TD"
            /\ fault =>
                /\ Len(SelectSeq(lines, IsRootEdge)) = 1
                /\ Len(SelectSeq(lines, IsContentEdge)) = 0
                /\ Count(code, "-->") = 1

C1_Witness == Returned /\ fault /\ Len(text) > 20 /\ Contains(text, "\"")

(***************************************************************************)
(* C2: the body has exactly one root-to-main edge and at most 4 content    *)
(* edges out of B (at most 6 node declarations); the edges are the first 4 *)
(* fragments in order, named C, D, E, F; further fragments are dropped.    *)
(***************************************************************************)
C2_NodeCap ==
    Returned =>
        LET code == result.mermaid_code
            lines == split(code, "\n")
            edges == SelectSeq(lines, IsContentEdge)
        IN  /\ Len(SelectSeq(lines, IsRootEdge)) = 1
            /\ Len(edges) <= 4
            /\ Count(code, "[") <= 6
            /\ ~fault =>
                /\ Len(edges) = Min(4, Len(sentences))
                /\ \A k \in 1..Len(edges) :
                    /\ NodeIdOf(edges[k]) = Char("CDEF", k)
                    /\ LabelOf(edges[k]) = escape(shape(sentences[k]))

C2_Witness == Returned /\ ~fault /\ Len(sentences) > 4 /\ Len(ContentEdges) = 4

(***************************************************************************)
(* C3: in the normal and in the minimal output no label holds a raw double *)
(* quote, single quote or newline: each label sits on one line closed by   *)
(* "], and every such character of the shaped fragment shows as &quot;,    *)
(* &#39; or <br/>.                                                         *)
(***************************************************************************)
C3_NoRawQuotes ==
    Returned =>
        LET labelled == LabelLines
            shown == [k \in 1..Len(labelled) |-> LabelOf(labelled[k])]
        IN  /\ Len(labelled) = (IF fault THEN 1 ELSE Len(node_texts))
            /\ \A k \in 1..Len(labelled) :
                /\ EndsWith(labelled[k], "\"]")
                /\ ~Contains(shown[k], "\"")
                /\ ~Contains(shown[k], "'")
                /\ ~Contains(shown[k], "\n")
            /\ ~fault => \A k \in 1..Len(node_texts) :
                LET shaped == node_texts[k]
                IN  /\ Count(shown[k], "&quot;")
                          = Count(shaped, "\"") + Count(shaped, "&quot;")
                    /\ Count(shown[k], "&#39;")
                          = Count(shaped, "'") + Count(shaped, "&#39;")
                    /\ Count(shown[k], "<br/>")
                          = Count(shaped, "\n") + Count(shaped, "<br/>")
            /\ (~fault /\ text = ScenarioE) => shown[1] = "He said &quot;hi&quot;"

C3_Witness ==
    /\ Returned /\ ~fault /\ Len(node_texts) = 1
    /\ Contains(node_texts[1], "\"")
    /\ Contains(node_texts[1], "'")
    /\ Contains(node_texts[1], "\n")

Cut(s, limit, keep) == IF Len(s) > limit THEN Prefix(s, keep) \o "..." ELSE s

C8_Shaping ==
    (Returned /\ ~fault) =>
        /\ \A k \in 1..Len(node_texts) :
            LET s == sentences[k]
                shaped == node_texts[k]
                words == split_ws(s)
                half == Len(words) \div 2
                first == join(" ", SubSeq(words, 1, half))
                rest == join(" ", SubSeq(words, half + 1, Len(words)))
            IN  /\ Len(s) <= 15 => shaped = s
                /\ (Len(s) > 15 /\ Len(words) >= 3) =>
                    /\ shaped = Cut(first, 20, 17) \o "<br/>" \o Cut(rest, 20, 17)
                    /\ Len(shaped) <= 20 + 5 + 20
                /\ (Len(s) > 15 /\ Len(words) < 3) =>
                    /\ shaped = Cut(s, 25, 25)
                    /\ Len(shaped) <= 28
        /\ Len(result.mermaid_code)
              <= Len(Header) + Len(RootEdge) + Len(Styles) + 4 * (13 + 6 * 40 + 5 + 3)

C8_Witness ==
    /\ Returned /\ ~fault
    /\ \E k \in 1..Len(node_texts) :
        /\ Len(split_ws(sentences[k])) >= 3
        /\ Len(sentences[k]) > 25
        /\ Contains(node_texts[k], "...<br/>")

(***************************************************************************)
(* C4: the escaping step is idempotent: once a label has been escaped,     *)
(* escaping it again leaves it as it is.                                   *)
(***************************************************************************)
C4_EscapeIdempotent == [][(pc = "escape" /\ passes >= 1) => label' = label]_vars

C4_Witness ==
    /\ pc = "escape" /\ passes = 2
    /\ Contains(text, "\"") /\ Contains(text, "&quot;")
    /\ Count(label, "&quot;") = 2

(***************************************************************************)
(* C5: a /generate-mindmap request whose model is not in AVAILABLE_MODELS  *)
(* is answered with status 400, and generate_mindmap_data is not called.   *)
(***************************************************************************)
C5_UnknownModelIs400 ==
    (/\ pc = "done"
     /\ request.endpoint = "generate-mindmap"
     /\ request.model \notin AVAILABLE_MODELS)
        => (response.status = 400 /\ calls = 0)

(***************************************************************************)
(* C6: generate_mindmap_data always returns a mermaid dict; when the       *)
(* provider call raised or gave no text, the dict is the one               *)
(* generate_fallback_mindmap returns for the same text; the provider's     *)
(* text is used only when the call gave a non-empty text.                  *)
(***************************************************************************)
C6_FallbackOnFailure ==
    calls > 0 =>
        LET failed == provider.kind = "raise" \/ provider.text = ""
            fallback == generate_fallback_mindmap(text, fault)
        IN  /\ result.type = "mermaid"
            /\ failed => result = fallback
            /\ result # fallback => (provider.kind = "text" /\ provider.text # "")
            /\ ~failed =>
                /\ ~Contains(result.mermaid_code, "^^^")
                /\ Contains(provider.text, result.mermaid_code)

C6_Witness ==
    /\ calls > 0
    /\ provider.kind = "text" /\ provider.text = ""
    /\ Len(text) > 20
    /\ StartsWith(result.mermaid_code, "graph TD\n    A[YYZLNR] --> B[ZYNR]\n    B --> C[")

(***************************************************************************)
(* C9: when a /transcribe or /transcribe-realtime request has completed,   *)
(* no temporary file of the handler is left on disk, on any path.          *)
(***************************************************************************)
C9_TempFilesRemoved == (pc = "done" /\ Transcribing) => files = {}

(***************************************************************************)
(* C10: in the transcription handlers generate_mindmap_data is called only *)
(* after the upstream call succeeded and only for a trimmed transcript of  *)
(* more than 20 characters (mindmap is None otherwise); whatever the       *)
(* diagram stage did, raising included, the handler goes on to build its   *)
(* result, and the response reports success with the transcribed text.     *)
(***************************************************************************)
C10_DiagramOptional ==
    Transcribing =>
        /\ calls > 0 => (transcript.type = "ok" /\ Len(strip(transcript.text)) > 20)
        /\ (transcript.type = "ok" /\ Len(strip(transcript.text)) <= 20) => mindmap = None
        /\ swallowed => mindmap = None
        /\ pc = "assemble" => exc = NoExc
        /\ (pc = "done" /\ transcript.type = "ok" /\ exc.type # "none")
              => exc.at = "assemble"
        /\ (pc = "done" /\ transcript.type = "ok" /\ exc = NoExc) =>
            /\ response.status = 200
            /\ response.body.success
            /\ response.body.mindmap = mindmap
            /\ response.body.text =
                  (IF request.endpoint = "transcribe-realtime"
                   THEN strip(transcript.text) ELSE transcript.text)

C10_Witness ==
    /\ Transcribing /\ pc = "done" /\ swallowed
    /\ response.status = 200
    /\ Len(response.body.text) > 20

====
